---- MODULE Spec2Model ----
(***************************************************************************)
(* x-diff-rs: unordered XML diff (X-Diff).                                 *)
(*                                                                         *)
(* A document is the tree roxmltree hands to XTree: nested node records.   *)
(* An XNode is a handle into one document: the position of a roxmltree     *)
(* node plus an optional attribute.  The position (the path of child       *)
(* indices from the root element) stands for roxmltree's NodeId: both      *)
(* name exactly one node of one document.                                  *)
(***************************************************************************)
EXTENDS Integers, Sequences, FiniteSets, Bags, TLC

VARIABLES tree1, tree2, change, pc, ht1, ht2, script, calls, output

vars == <<tree1, tree2, change, pc, ht1, ht2, script, calls, output>>

(***************************************************************************)
(* Bounds and alphabets of the documents that are compared.                *)
(***************************************************************************)
MaxNodes == 5

DocTags == {"a"}
DocTexts == {"x", " "}
DocComments == {"c"}
DocAttrs == {[ns |-> "", name |-> "k", value |-> "1"]}

NewTags == {"a", "b"}
NewTexts == {"x", "y", " x", " "}
NewAttrValues == {"1", "2", "1 "}
NewAttrNames == {"k", "text"}

(***************************************************************************)
(* roxmltree nodes.                                                        *)
(***************************************************************************)
Element(name, attrs, kids) ==
  [type |-> "element", ns |-> "", name |-> name, text |-> "",
   attrs |-> attrs, kids |-> kids]

Text(t) ==
  [type |-> "text", ns |-> "", name |-> "", text |-> t,
   attrs |-> <<>>, kids |-> <<>>]

Comment(t) ==
  [type |-> "comment", ns |-> "", name |-> "", text |-> t,
   attrs |-> <<>>, kids |-> <<>>]

RECURSIVE NodeAt(_, _)
NodeAt(tree, path) ==
  IF path = <<>> THEN tree ELSE NodeAt(tree.kids[Head(path)], Tail(path))

(***************************************************************************)
(* str::trim, on the strings of the alphabets (the only whitespace is the  *)
(* space).                                                                 *)
(***************************************************************************)
RECURSIVE trim_start(_)
trim_start(s) ==
  IF Len(s) > 0 /\ SubSeq(s, 1, 1) = " "
  THEN trim_start(SubSeq(s, 2, Len(s)))
  ELSE s

RECURSIVE trim_end(_)
trim_end(s) ==
  IF Len(s) > 0 /\ SubSeq(s, Len(s), Len(s)) = " "
  THEN trim_end(SubSeq(s, 1, Len(s) - 1))
  ELSE s

trim(s) == trim_end(trim_start(s))

(***************************************************************************)
(* md5::compute, tabulated on every string the alphabets can format.       *)
(***************************************************************************)
md5(s) ==
  CASE s = ":a" -> <<102, 192, 97, 36, 104, 43, 0, 95, 37, 111, 233, 14, 51, 37, 207, 121>>
    [] s = ":b" -> <<228, 29, 138, 182, 66, 82, 59, 137, 41, 32, 202, 214, 149, 231, 22, 180>>
    [] s = "k=1" -> <<206, 239, 120, 182, 27, 240, 19, 6, 204, 126, 128, 52, 76, 146, 193, 157>>
    [] s = "k=2" -> <<56, 201, 171, 172, 164, 192, 231, 98, 212, 34, 129, 233, 103, 228, 89, 89>>
    [] s = "k=1 " -> <<130, 254, 9, 54, 150, 157, 228, 2, 106, 40, 157, 69, 111, 191, 211, 200>>
    [] s = "text=1" -> <<103, 210, 219, 52, 155, 104, 155, 160, 88, 26, 93, 186, 240, 155, 130, 226>>
    [] s = "text=2" -> <<193, 228, 25, 212, 10, 242, 109, 209, 233, 84, 226, 215, 22, 209, 146, 169>>
    [] s = "text=1 " -> <<119, 146, 63, 172, 44, 173, 15, 177, 57, 174, 204, 22, 182, 96, 43, 229>>
    [] s = "x" -> <<157, 212, 228, 97, 38, 140, 128, 52, 245, 200, 86, 78, 21, 92, 103, 166>>
    [] s = "y" -> <<65, 82, 144, 118, 149, 148, 70, 14, 46, 72, 89, 34, 144, 79, 52, 93>>
    [] s = "" -> <<212, 29, 140, 217, 143, 0, 178, 4, 233, 128, 9, 152, 236, 248, 66, 126>>

(***************************************************************************)
(* XNode (tree.rs).  attr is <<>> for None and <<a>> for Some(a).          *)
(***************************************************************************)
XNode(path, attr) == [node |-> path, attr |-> attr]

root == XNode(<<>>, <<>>)

is_attribute(x) == x.attr # <<>>

is_text(tree, x) == x.attr = <<>> /\ NodeAt(tree, x.node).type = "text"

is_element(tree, x) == x.attr = <<>> /\ NodeAt(tree, x.node).type = "element"

\* the id of an attribute without the attribute's name
id_of_element(x) == <<x.node, "">>

\* XNodeId rendered by Display: "<id>", "<id>[<name>]" or "<id>[{<ns>}<name>]"
id(x) ==
  IF x.attr # <<>>
  THEN IF x.attr[1].ns # ""
       THEN <<x.node, "[{" \o x.attr[1].ns \o "}" \o x.attr[1].name \o "]">>
       ELSE <<x.node, "[" \o x.attr[1].name \o "]">>
  ELSE <<x.node, "">>

children(tree, x) ==
  IF x.attr # <<>> THEN <<>>
  ELSE LET n == NodeAt(tree, x.node)
           all == [i \in 1..Len(n.kids) |-> XNode(Append(x.node, i), <<>>)]
           nodes == SelectSeq(all, LAMBDA c :
                      ~(NodeAt(tree, c.node).type = "text"
                        /\ trim(NodeAt(tree, c.node).text) = ""))
           attrs == [i \in 1..Len(n.attrs) |-> XNode(x.node, <<n.attrs[i]>>)]
       IN nodes \o attrs

value(tree, x) ==
  IF x.attr # <<>> THEN x.attr[1].value ELSE NodeAt(tree, x.node).text

Unreachable == <<>>

\* hash with the position of the node among its siblings mixed in
hash_with_position(tree, x) ==
  LET place == IF x.node = <<>> THEN 0 ELSE x.node[Len(x.node)]
      mix(h) == [i \in 1..16 |-> (h[i] + place) % 256]
  IN IF x.attr # <<>>
     THEN mix(md5(x.attr[1].ns \o x.attr[1].name \o "=" \o x.attr[1].value))
     ELSE LET n == NodeAt(tree, x.node) IN
          CASE n.type = "element" -> mix(md5(n.ns \o ":" \o n.name))
            [] n.type = "text" -> mix(md5(trim(n.text)))
            [] OTHER -> <<>>

\* XNode::hash: a Digest (16 bytes), or Unreachable for the `_ => unreachable!()` arm
hash(tree, x) ==
  IF x.attr # <<>>
  THEN md5(x.attr[1].ns \o x.attr[1].name \o "=" \o x.attr[1].value)
  ELSE LET n == NodeAt(tree, x.node) IN
       CASE n.type = "element" -> md5(n.ns \o ":" \o n.name)
         [] n.type = "text" -> md5(trim(n.text))
         [] OTHER -> Unreachable

signature(tree, x) ==
  IF x.attr # <<>>
  THEN x.attr[1].ns \o x.attr[1].name
  ELSE LET n == NodeAt(tree, x.node) IN
       CASE n.type = "element" -> n.ns \o ":" \o n.name
         [] n.type = "text" -> "text"
         [] OTHER -> "unreachable!()"

(***************************************************************************)
(* diff.rs: the order-independent combiner and the hash index.             *)
(***************************************************************************)
DigestLen == 16

\* the other digest is not added
concat_keep_self(self, other) == self

concat(self, other) ==
  [i \in 1..DigestLen |-> (self[i] + other[i]) % 256]

\* hash_of_node: [hash, ht]; hash = Unreachable when a hash() call panicked
RECURSIVE hash_of_node(_, _, _)
RECURSIVE hash_children(_, _, _, _)
hash_children(tree, cs, acc, ht) ==
  IF cs = <<>> THEN [hash |-> acc, ht |-> ht]
  ELSE LET r == hash_of_node(tree, Head(cs), ht) IN
       IF r.hash = Unreachable THEN r
       ELSE hash_children(tree, Tail(cs), concat(acc, r.hash), r.ht)

hash_of_node(tree, node, ht) ==
  LET own == hash(tree, node)
      r == IF own = Unreachable THEN [hash |-> Unreachable, ht |-> ht]
           ELSE hash_children(tree, children(tree, node), own, ht)
  IN IF r.hash = Unreachable THEN r
     ELSE [hash |-> r.hash, ht |-> (id(node) :> r.hash) @@ r.ht]

EmptyTable == [k \in {} |-> Unreachable]

calculate_hash_table(tree) == hash_of_node(tree, root, EmptyTable)

(***************************************************************************)
(* diff.rs: Edit and the recursive matcher.                                *)
(*                                                                         *)
(* HashSet iteration order is not fixed by the program (RandomState), so   *)
(* diff_node is the set of its possible outcomes.  An outcome is the       *)
(* script it returns and the diff_node calls made on the way, each with    *)
(* what it decided (also the calls whose script is later thrown away).     *)
(***************************************************************************)
Insert(child_node, to_node) ==
  [edit |-> "Insert", child_node |-> child_node, to_node |-> to_node]

Delete(node) == [edit |-> "Delete", node |-> node]

Update(old, new) == [edit |-> "Update", old |-> old, new |-> new]

ReplaceRoot == [edit |-> "ReplaceRoot"]

\* HashMap::get: <<>> for None, <<v>> for Some(v)
Get(ht, key) == IF key \in DOMAIN ht THEN <<ht[key]>> ELSE <<>>

\* children().iter().map(|n| (hash, n)).collect::<HashMap>(): of several
\* children with one hash the map keeps the last inserted
Collect(ht, cs) ==
  [h \in {ht[id(cs[i])] : i \in 1..Len(cs)} |->
     cs[CHOOSE i \in 1..Len(cs) :
          /\ ht[id(cs[i])] = h
          /\ \A j \in 1..Len(cs) : ht[id(cs[j])] = h => j <= i]]

\* one element of each set of a sequence of sets, in every way
RECURSIVE Product(_)
Product(sets) ==
  IF sets = <<>> THEN {<<>>}
  ELSE {<<h>> \o r : h \in Head(sets), r \in Product(Tail(sets))}

\* the orders in which a HashSet can hand out its elements
Orders(S) ==
  {f \in [1..Cardinality(S) -> S] :
     \A i, j \in 1..Cardinality(S) : i # j => f[i] # f[j]}

\* diff_pairs left in the order the loops pushed them
sort_by_key_unsorted(s) == s

\* slice::sort_by_key(|item| item.2.len()): stable
RECURSIVE sort_by_key(_)
sort_by_key(s) ==
  IF s = <<>> THEN <<>>
  ELSE LET front == sort_by_key(SubSeq(s, 1, Len(s) - 1))
           e == s[Len(s)]
           k == Cardinality({i \in 1..Len(front) : Len(front[i].d) <= Len(e.d)})
       IN SubSeq(front, 1, k) \o <<e>> \o SubSeq(front, k + 1, Len(front))

\* the loop over the sorted diff_pairs without the contains test
RECURSIVE commit_pairs_all(_, _)
commit_pairs_all(pairs, st) ==
  IF pairs = <<>> THEN st
  ELSE LET p == Head(pairs) IN
       commit_pairs_all(Tail(pairs),
         [remaining_children1 |-> st.remaining_children1 \ {p.n1},
          remaining_children2 |-> st.remaining_children2 \ {p.n2},
          diff |-> st.diff \o p.d,
          committed |-> st.committed \cup {<<p.n1, p.n2>>}])

\* the loop over the sorted diff_pairs (diff.rs 115-121)
RECURSIVE commit_pairs(_, _)
commit_pairs(pairs, st) ==
  IF pairs = <<>> THEN st
  ELSE LET p == Head(pairs) IN
       commit_pairs(Tail(pairs),
         IF p.n1 \in st.remaining_children1 /\ p.n2 \in st.remaining_children2
         THEN [remaining_children1 |-> st.remaining_children1 \ {p.n1},
               remaining_children2 |-> st.remaining_children2 \ {p.n2},
               diff |-> st.diff \o p.d,
               committed |-> st.committed \cup {<<p.n1, p.n2>>}]
         ELSE st)

Call(node1, node2, step, rem1, rem2, pairs, committed, deleted, inserted) ==
  [node1 |-> node1, node2 |-> node2, step |-> step,
   remaining_children1 |-> rem1, remaining_children2 |-> rem2,
   diff_pairs |-> pairs, committed |-> committed,
   deleted |-> deleted, inserted |-> inserted]

Outcome(panic, diff, calls_made) ==
  [panic |-> panic, script |-> diff, calls |-> calls_made]

\* no hash is taken as common
same_hashes_none(iht1, iht2) == {}

\* intersection of the two key sets (diff.rs 98-100)
same_hashes(iht1, iht2) == (DOMAIN iht1) \cap (DOMAIN iht2)

\* retain(..) and into_values().collect::<HashSet>() (diff.rs 101-104)
remaining_children(iht, same) == {iht[h] : h \in (DOMAIN iht) \ same}

\* the nested loops without the signature test
candidates_any_signature(doc1, o1, doc2, o2) ==
  [k \in 1..(Len(o1) * Len(o2)) |->
     <<o1[((k - 1) \div Len(o2)) + 1], o2[((k - 1) % Len(o2)) + 1]>>]

\* the nested loops of diff.rs 106-112, before the recursive calls: the pairs
\* (n1, n2) with equal signatures, in the order the loops meet them
candidates(doc1, o1, doc2, o2) ==
  LET all == [k \in 1..(Len(o1) * Len(o2)) |->
                <<o1[((k - 1) \div Len(o2)) + 1], o2[((k - 1) % Len(o2)) + 1]>>]
  IN SelectSeq(all, LAMBDA c : signature(doc1, c[1]) = signature(doc2, c[2]))

RECURSIVE diff_node(_, _, _, _, _, _)
diff_node(doc1, node1, table1, doc2, node2, table2) ==
  IF Get(table1, id(node1)) = Get(table2, id(node2))
  THEN {Outcome(FALSE, <<>>,
          {Call(node1, node2, "equal", {}, {}, <<>>, {}, {}, {})})}
  ELSE IF \/ is_attribute(node1) /\ is_attribute(node2)
          \/ is_text(doc1, node1) /\ is_text(doc2, node2)
  THEN {Outcome(FALSE, <<Update(node1, node2)>>,
          {Call(node1, node2, "update", {}, {}, <<>>, {}, {}, {})})}
  ELSE IF \/ \E i \in 1..Len(children(doc1, node1)) :
                Get(table1, id(children(doc1, node1)[i])) = <<>>
          \/ \E i \in 1..Len(children(doc2, node2)) :
                Get(table2, id(children(doc2, node2)[i])) = <<>>
  THEN {Outcome(TRUE, <<>>, {})}   \* .unwrap() on None (diff.rs 91, 96)
  ELSE
  LET iht1 == Collect(table1, children(doc1, node1))
      iht2 == Collect(table2, children(doc2, node2))
      same == same_hashes(iht1, iht2)
      rem1 == remaining_children(iht1, same)
      rem2 == remaining_children(iht2, same)
      Run(o1, o2) ==
        LET cands == candidates(doc1, o1, doc2, o2)
            subs == Product([k \in 1..Len(cands) |->
                       diff_node(doc1, cands[k][1], table1, doc2, cands[k][2], table2)])
            Finish(sub) ==
              LET diff_pairs == sort_by_key(
                    [k \in 1..Len(cands) |->
                       [n1 |-> cands[k][1], n2 |-> cands[k][2], d |-> sub[k].script]])
                  st == commit_pairs(diff_pairs,
                          [remaining_children1 |-> rem1, remaining_children2 |-> rem2,
                           diff |-> <<>>, committed |-> {}])
                  left1 == SelectSeq(o1, LAMBDA n : n \in st.remaining_children1)
                  left2 == SelectSeq(o2, LAMBDA n : n \in st.remaining_children2)
                  deletes == [k \in 1..Len(left1) |-> Delete(left1[k])]
                  inserts == [k \in 1..Len(left2) |-> Insert(left2[k], node1)]
              IN Outcome(\E k \in 1..Len(sub) : sub[k].panic,
                   st.diff \o deletes \o inserts,
                   {Call(node1, node2, "children", rem1, rem2, diff_pairs,
                         st.committed, st.remaining_children1,
                         st.remaining_children2)}
                   \cup UNION {sub[k].calls : k \in 1..Len(sub)})
        IN {Finish(sub) : sub \in subs}
  IN UNION {Run(o1, o2) : o1 \in Orders(rem1), o2 \in Orders(rem2)}

(***************************************************************************)
(* The documents that are compared.  Docs: every document XTree::parse can *)
(* return with at most MaxNodes nodes (attributes counted) over the Doc    *)
(* alphabets; roxmltree merges adjacent text, so no two text nodes are     *)
(* neighbours.  tree2 is tree1 after one change of the kind the diff is    *)
(* meant to report; `change` remembers which.                              *)
(***************************************************************************)
NoAdjacentText(kids) ==
  \A i \in 1..(Len(kids) - 1) :
     ~(kids[i].type = "text" /\ kids[i + 1].type = "text")

AttrSeqs == {<<>>} \cup {<<a>> : a \in DocAttrs}

RECURSIVE ElementsOfSize(_)
RECURSIVE ForestsOfSize(_, _)
ForestsOfSize(n, afterText) ==
  IF n = 0 THEN {<<>>}
  ELSE {<<Text(v)>> \o f : v \in (IF afterText THEN {} ELSE DocTexts),
                          f \in ForestsOfSize(n - 1, TRUE)}
       \cup {<<Comment(c)>> \o f : c \in DocComments,
                                  f \in ForestsOfSize(n - 1, FALSE)}
       \cup UNION {{<<e>> \o f : e \in ElementsOfSize(m),
                                f \in ForestsOfSize(n - m, FALSE)} : m \in 1..n}

ElementsOfSize(n) ==
  UNION {{Element(name, as, f) : name \in DocTags,
                                 f \in ForestsOfSize(n - 1 - Len(as), FALSE)}
         : as \in {a \in AttrSeqs : Len(a) <= n - 1}}

Docs == UNION {ElementsOfSize(n) : n \in 1..MaxNodes}

RECURSIVE Paths(_)
Paths(t) ==
  {<<>>} \cup UNION {{<<i>> \o p : p \in Paths(t.kids[i])} : i \in 1..Len(t.kids)}

ElementPaths(t) == {p \in Paths(t) : NodeAt(t, p).type = "element"}

TextPaths(t) == {p \in Paths(t) : NodeAt(t, p).type = "text"}

RECURSIVE ReplaceAt(_, _, _)
ReplaceAt(t, path, sub) ==
  IF path = <<>> THEN sub
  ELSE [t EXCEPT !.kids[Head(path)] = ReplaceAt(@, Tail(path), sub)]

InsertAt(seq, i, e) == SubSeq(seq, 1, i - 1) \o <<e>> \o SubSeq(seq, i, Len(seq))

RemoveAt(seq, i) == SubSeq(seq, 1, i - 1) \o SubSeq(seq, i + 1, Len(seq))

Parent(path) == SubSeq(path, 1, Len(path) - 1)

Last(path) == path[Len(path)]

IsPrefix(p, q) == Len(p) <= Len(q) /\ SubSeq(q, 1, Len(p)) = p

How(op, at, child) == [op |-> op, at |-> at, child |-> child]

Same(t) == {[how |-> How("same", root, root), doc |-> t]}

UpdateText(t) ==
  UNION {{[how |-> How("update", XNode(p, <<>>), XNode(p, <<>>)),
           doc |-> ReplaceAt(t, p, Text(v))]
          : v \in NewTexts \ {NodeAt(t, p).text}}
         : p \in TextPaths(t)}

UpdateAttr(t) ==
  UNION {UNION {{[how |-> How("update",
                              XNode(p, <<NodeAt(t, p).attrs[i]>>),
                              XNode(p, <<[NodeAt(t, p).attrs[i] EXCEPT !.value = v]>>)),
                  doc |-> ReplaceAt(t, p,
                            [NodeAt(t, p) EXCEPT !.attrs[i].value = v])]
                 : v \in NewAttrValues \ {NodeAt(t, p).attrs[i].value}}
                : i \in 1..Len(NodeAt(t, p).attrs)}
         : p \in ElementPaths(t)}

NewChildren == {Text("x"), Element("a", <<>>, <<>>), Element("b", <<>>, <<>>)}

InsertChild(t) ==
  UNION {UNION {{[how |-> How("insert", XNode(p, <<>>), XNode(Append(p, i), <<>>)),
                  doc |-> ReplaceAt(t, p,
                            [NodeAt(t, p) EXCEPT !.kids = InsertAt(@, i, c)])]
                 : c \in {n \in NewChildren :
                            NoAdjacentText(InsertAt(NodeAt(t, p).kids, i, n))}}
                : i \in 1..(Len(NodeAt(t, p).kids) + 1)}
         : p \in ElementPaths(t)}

NewAttrs == {[ns |-> "", name |-> n, value |-> v] : n \in NewAttrNames, v \in NewAttrValues}

InsertAttr(t) ==
  UNION {{[how |-> How("insert", XNode(p, <<>>), XNode(p, <<a>>)),
           doc |-> ReplaceAt(t, p, [NodeAt(t, p) EXCEPT !.attrs = Append(@, a)])]
          : a \in {n \in NewAttrs :
                     \A i \in 1..Len(NodeAt(t, p).attrs) :
                        NodeAt(t, p).attrs[i].name # n.name}}
         : p \in ElementPaths(t)}

DeleteChild(t) ==
  {[how |-> How("delete", XNode(p, <<>>), root),
    doc |-> ReplaceAt(t, Parent(p),
              [NodeAt(t, Parent(p)) EXCEPT !.kids = RemoveAt(@, Last(p))])]
   : p \in {q \in Paths(t) \ {<<>>} :
              NoAdjacentText(RemoveAt(NodeAt(t, Parent(q)).kids, Last(q)))}}

DeleteAttr(t) ==
  UNION {{[how |-> How("delete", XNode(p, <<NodeAt(t, p).attrs[i]>>), root),
           doc |-> ReplaceAt(t, p, [NodeAt(t, p) EXCEPT !.attrs = RemoveAt(@, i)])]
          : i \in 1..Len(NodeAt(t, p).attrs)}
         : p \in ElementPaths(t)}

\* the subtree at p is taken out and appended to the children of q
MoveChild(t) ==
  UNION {{[how |-> How("move", XNode(p, <<>>), XNode(q, <<>>)),
           doc |-> LET added == ReplaceAt(t, q,
                                  [NodeAt(t, q) EXCEPT !.kids = Append(@, NodeAt(t, p))])
                   IN ReplaceAt(added, Parent(p),
                        [NodeAt(added, Parent(p)) EXCEPT !.kids = RemoveAt(@, Last(p))])]
          : q \in {e \in ElementPaths(t) :
                     /\ ~IsPrefix(p, e)
                     /\ e # Parent(p)
                     /\ NoAdjacentText(Append(NodeAt(t, e).kids, NodeAt(t, p)))
                     /\ NoAdjacentText(RemoveAt(NodeAt(t, Parent(p)).kids, Last(p)))}}
         : p \in Paths(t) \ {<<>>}}

Rename(t) ==
  UNION {{[how |-> How("rename", XNode(p, <<>>), XNode(p, <<>>)),
           doc |-> ReplaceAt(t, p, [NodeAt(t, p) EXCEPT !.name = n])]
          : n \in NewTags \ {NodeAt(t, p).name}}
         : p \in ElementPaths(t)}

Bijections(n) ==
  {f \in [1..n -> 1..n] : \A i, j \in 1..n : i # j => f[i] # f[j]}

SeqPerms(s) == {[i \in 1..Len(s) |-> s[f[i]]] : f \in Bijections(Len(s))}

\* every document obtained by permuting the children of any elements
RECURSIVE PermsOf(_)
PermsOf(t) ==
  IF t.type # "element" THEN {t}
  ELSE {[t EXCEPT !.kids = ks, !.attrs = as]
        : ks \in {k \in UNION {SeqPerms(kc)
                               : kc \in Product([i \in 1..Len(t.kids) |-> PermsOf(t.kids[i])])}
                  : NoAdjacentText(k)},
          as \in SeqPerms(t.attrs)}

Permute(t) == {[how |-> How("permute", root, root), doc |-> d] : d \in PermsOf(t)}

\* two same-named element children (blocks) of the element at p
BlockPairs(t, p) ==
  {ij \in (1..Len(NodeAt(t, p).kids)) \X (1..Len(NodeAt(t, p).kids)) :
     /\ ij[1] < ij[2]
     /\ NodeAt(t, p).kids[ij[1]].type = "element"
     /\ NodeAt(t, p).kids[ij[2]].type = "element"
     /\ NodeAt(t, p).kids[ij[1]].ns = NodeAt(t, p).kids[ij[2]].ns
     /\ NodeAt(t, p).kids[ij[1]].name = NodeAt(t, p).kids[ij[2]].name}

Swapped(t, p, i, j) ==
  ReplaceAt(t, p, [NodeAt(t, p) EXCEPT !.kids[i] = NodeAt(t, p).kids[j],
                                       !.kids[j] = NodeAt(t, p).kids[i]])

SwapIdx(path, p, i, j) ==
  [path EXCEPT ![Len(p) + 1] = IF @ = i THEN j ELSE i]

\* two blocks change places and one leaf inside one of them gets another value
ReorderUpdate(t) ==
  UNION {UNION {{[how |-> How("reorder_update",
                              XNode(SwapIdx(u.how.at.node, p, ij[1], ij[2]), u.how.at.attr),
                              u.how.child),
                  doc |-> u.doc]
                 : u \in {v \in UpdateText(Swapped(t, p, ij[1], ij[2]))
                                \cup UpdateAttr(Swapped(t, p, ij[1], ij[2])) :
                            \/ IsPrefix(Append(p, ij[1]), v.how.at.node)
                            \/ IsPrefix(Append(p, ij[2]), v.how.at.node)}}
                : ij \in BlockPairs(t, p)}
         : p \in ElementPaths(t)}

RECURSIVE Size(_)
Size(t) ==
  1 + Len(t.attrs)
    + (LET RECURSIVE Sum(_)
           Sum(ks) == IF ks = <<>> THEN 0 ELSE Size(Head(ks)) + Sum(Tail(ks))
       IN Sum(t.kids))

\* two changes in one document: a child is inserted and a leaf gets another
\* value (documents of less than MaxNodes nodes)
InsertUpdate(t) ==
  IF Size(t) >= MaxNodes THEN {}
  ELSE UNION {{[how |-> How("insert_update", u.how.at, c.how.child), doc |-> c.doc]
               : c \in InsertChild(u.doc) \cup InsertAttr(u.doc)}
              : u \in UpdateText(t) \cup UpdateAttr(t)}

\* the same new element is appended twice to the children of one element
InsertTwice(t) ==
  UNION {{[how |-> How("insert_twice", XNode(p, <<>>),
                       XNode(Append(p, Len(NodeAt(t, p).kids) + 1), <<>>)),
           doc |-> ReplaceAt(t, p,
                     [NodeAt(t, p) EXCEPT !.kids = Append(Append(@, c), c)])]
          : c \in {n \in NewChildren : n.type = "element"}}
         : p \in ElementPaths(t)}

Changes(t) ==
  Same(t) \cup Permute(t) \cup UpdateText(t) \cup UpdateAttr(t)
  \cup InsertChild(t) \cup InsertAttr(t) \cup DeleteChild(t) \cup DeleteAttr(t)
  \cup MoveChild(t) \cup Rename(t) \cup ReorderUpdate(t) \cup InsertUpdate(t) \cup InsertTwice(t)

(***************************************************************************)
(* tree.rs, mod print: the rendering of a diff.  The output is the         *)
(* sequence of the lines written; a line is the gutter, the node it shows  *)
(* (doc 1 or 2) and the vlines it was indented with.                       *)
(***************************************************************************)
Line(gutter, doc, node, vlines) ==
  [gutter |-> gutter, doc |-> doc, node |-> node, vlines |-> vlines]

\* write_node_line: one line for the node
write_node_line(doc, node, gutter, vlines) == <<Line(gutter, doc, node, vlines)>>

\* vlines with its last entry set to false: *vlines.last_mut().unwrap() = false
last_false(vlines) == [vlines EXCEPT ![Len(vlines)] = FALSE]

\* write_subtree: the node and everything below it with one gutter; vlines
\* is pushed before the children and popped after them
RECURSIVE write_subtree(_, _, _, _, _)
write_subtree(doc, tree, node, gutter, vlines) ==
  LET cs == children(tree, node)
      Kids[i \in 0..Len(cs)] ==
        IF i = 0 THEN <<>>
        ELSE Kids[i - 1]
             \o write_subtree(doc, tree, cs[i], gutter, Append(vlines, i # Len(cs)))
  IN write_node_line(doc, node, gutter, vlines) \o Kids[Len(cs)]

\* the for loop over the edits pushed (tree.rs 342-353): id of the node the
\* edit is filed under
changed_key(e) ==
  CASE e.edit = "Insert" -> id(e.to_node)
    [] e.edit = "Delete" -> id(e.node)
    [] e.edit = "Update" -> id(e.old)

\* changed_nodes: for every key the edits filed under it, in script order
changed_nodes(edits) ==
  [k \in {changed_key(edits[i]) : i \in 1..Len(edits)} |->
     SelectSeq(edits, LAMBDA e : changed_key(e) = k)]

\* the loop over the edits of one node (tree.rs 384-427); st is the output
\* so far, vlines and whether unwrap() failed
RECURSIVE write_edits(_, _, _, _, _, _)
write_edits(t1, t2, node, edits, i, st) ==
  IF i > Len(edits) \/ st.panic THEN st
  ELSE LET e == edits[i] IN
       IF e.edit = "Insert"
       THEN IF i = Len(edits) /\ st.vlines = <<>>
            THEN [st EXCEPT !.panic = TRUE]
            ELSE LET vl == IF i = Len(edits) THEN last_false(st.vlines) ELSE st.vlines
                 IN write_edits(t1, t2, node, edits, i + 1,
                      [st EXCEPT !.vlines = vl,
                                 !.out = @ \o write_subtree(2, t2, e.child_node, "Add", vl)])
       ELSE IF e.edit = "Delete"
       THEN write_edits(t1, t2, node, edits, i + 1,
              [st EXCEPT !.out = @ \o write_subtree(1, t1, node, "Delete", st.vlines)])
       ELSE write_edits(t1, t2, node, edits, i + 1,
              [st EXCEPT !.out = @ \o write_subtree(1, t1, e.old, "Delete", st.vlines)
                                   \o write_subtree(2, t2, e.new, "Add", st.vlines)])

\* write_subtree_diff (tree.rs 359-454): [out, panic]
RECURSIVE write_subtree_diff(_, _, _, _, _)
write_subtree_diff(t1, t2, node, changed, vlines) ==
  LET cs == children(t1, node) IN
  IF id(node) \in DOMAIN changed
  THEN LET edits == changed[id(node)]
           first_insert == edits[1].edit = "Insert"
           Kids[i \in 0..Len(cs)] ==
             IF i = 0 THEN [out |-> <<>>, panic |-> FALSE]
             ELSE IF Kids[i - 1].panic THEN Kids[i - 1]
             ELSE LET r == write_subtree_diff(t1, t2, cs[i], changed, Append(vlines, TRUE))
                  IN [out |-> Kids[i - 1].out \o r.out, panic |-> r.panic]
       IN IF first_insert /\ cs = <<>>
          THEN [out |-> write_node_line(1, node, "Blank", vlines), panic |-> FALSE]
          ELSE IF first_insert /\ Kids[Len(cs)].panic
          THEN [out |-> write_node_line(1, node, "Blank", vlines) \o Kids[Len(cs)].out,
                panic |-> TRUE]
          ELSE LET st == write_edits(t1, t2, node, edits, 1,
                           [out |-> IF first_insert
                                    THEN write_node_line(1, node, "Blank", vlines)
                                         \o Kids[Len(cs)].out
                                    ELSE <<>>,
                            vlines |-> IF first_insert THEN Append(vlines, TRUE) ELSE vlines,
                            panic |-> FALSE])
               IN [out |-> st.out, panic |-> st.panic]
  ELSE LET Kids[i \in 0..Len(cs)] ==
             IF i = 0 THEN [out |-> <<>>, panic |-> FALSE]
             ELSE IF Kids[i - 1].panic THEN Kids[i - 1]
             ELSE LET r == write_subtree_diff(t1, t2, cs[i], changed,
                                              Append(vlines, i # Len(cs)))
                  IN [out |-> Kids[i - 1].out \o r.out, panic |-> r.panic]
       IN [out |-> write_node_line(1, node, "Blank", vlines) \o Kids[Len(cs)].out,
           panic |-> Kids[Len(cs)].panic]

TheSame == [gutter |-> "None", text |-> "The trees are the same."]

\* write_tree_diff (tree.rs 309-357) on the script diff returned
write_tree_diff(t1, t2, edits) ==
  IF edits = <<>> THEN [out |-> <<TheSame>>, panic |-> FALSE]
  ELSE IF edits[1].edit = "ReplaceRoot"
  THEN [out |-> write_subtree(1, t1, root, "Delete", <<>>)
                \o write_subtree(2, t2, root, "Add", <<>>),
        panic |-> FALSE]
  ELSE write_subtree_diff(t1, t2, root, changed_nodes(edits), <<>>)

Init ==
  /\ tree1 \in Docs
  /\ \E c \in Changes(tree1) : change = c.how /\ tree2 = c.doc
  /\ pc = "start"
  /\ ht1 = EmptyTable
  /\ ht2 = EmptyTable
  /\ script = <<>>
  /\ calls = {}
  /\ output = <<>>

\* the root check with == for !=
CheckRoot_inverted ==
  /\ pc = "start"
  /\ IF signature(tree1, root) = signature(tree2, root)
     THEN script' = <<ReplaceRoot>> /\ pc' = "done"
     ELSE script' = script /\ pc' = "table1"
  /\ UNCHANGED <<tree1, tree2, change, ht1, ht2, calls, output>>

\* the root check without its return
CheckRoot_no_return ==
  /\ pc = "start"
  /\ IF signature(tree1, root) # signature(tree2, root)
     THEN script' = <<ReplaceRoot>> /\ pc' = "table1"
     ELSE script' = script /\ pc' = "table1"
  /\ UNCHANGED <<tree1, tree2, change, ht1, ht2, calls, output>>

\* diff (diff.rs 133-135): the root compatibility check
CheckRoot ==
  /\ pc = "start"
  /\ IF signature(tree1, root) # signature(tree2, root)
     THEN script' = <<ReplaceRoot>> /\ pc' = "done"
     ELSE script' = script /\ pc' = "table1"
  /\ UNCHANGED <<tree1, tree2, change, ht1, ht2, calls, output>>

\* diff (diff.rs 136): let ht1 = calculate_hash_table(tree1)
BuildTable1 ==
  /\ pc = "table1"
  /\ LET r == calculate_hash_table(tree1) IN
     IF r.hash = Unreachable
     THEN pc' = "panic" /\ ht1' = ht1
     ELSE pc' = "table2" /\ ht1' = r.ht
  /\ UNCHANGED <<tree1, tree2, change, ht2, script, calls, output>>

\* diff (diff.rs 137): let ht2 = calculate_hash_table(tree2)
BuildTable2 ==
  /\ pc = "table2"
  /\ LET r == calculate_hash_table(tree2) IN
     IF r.hash = Unreachable
     THEN pc' = "panic" /\ ht2' = ht2
     ELSE pc' = "match" /\ ht2' = r.ht
  /\ UNCHANGED <<tree1, tree2, change, ht1, script, calls, output>>

\* diff (diff.rs 138): diff_node(tree1.root(), &ht1, tree2.root(), &ht2)
Match ==
  /\ pc = "match"
  /\ \E o \in diff_node(tree1, root, ht1, tree2, root, ht2) :
        /\ script' = o.script
        /\ calls' = o.calls
        /\ pc' = IF o.panic THEN "panic" ELSE "done"
  /\ UNCHANGED <<tree1, tree2, change, ht1, ht2, output>>

\* print::write_tree_diff (tree.rs 309-357), after its call of diff returned
WriteTreeDiff ==
  /\ pc = "done"
  /\ LET r == write_tree_diff(tree1, tree2, script) IN
        /\ output' = r.out
        /\ pc' = IF r.panic THEN "write_panic" ELSE "written"
  /\ UNCHANGED <<tree1, tree2, change, ht1, ht2, script, calls>>

Next == CheckRoot \/ BuildTable1 \/ BuildTable2 \/ Match \/ WriteTreeDiff

Spec == Init /\ [][Next]_vars

(***************************************************************************)
(* The claims.                                                             *)
(***************************************************************************)
Returned == pc = "done"

SameRootSignature == signature(tree1, root) = signature(tree2, root)

\* C1: a document compared with itself (the same text parsed a second time):
\* both hash indices give the root the same accumulated hash, and the script
\* that diff returns is empty.
C1_Identity ==
  tree1 = tree2 =>
    /\ pc \in {"match", "done"} =>
         /\ Get(ht1, id(root)) # <<>>
         /\ Get(ht1, id(root)) = Get(ht2, id(root))
    /\ Returned => script = <<>>

C1_Witness == Returned /\ tree1 = tree2 /\ children(tree1, root) # <<>>

\* C2: when tree2 is tree1 with the children of any of its elements permuted,
\* the script that diff returns is empty.
C2_OrderInsensitive ==
  (Returned /\ tree2 \in PermsOf(tree1)) => script = <<>>

C2_Witness ==
  /\ Returned
  /\ tree2 \in PermsOf(tree1)
  /\ tree2 # tree1
  /\ children(tree1, root) # children(tree2, root)

\* C5: when the root signatures differ diff returns exactly [ReplaceRoot], no
\* hash index is built and no diff_node call is made; when they are equal no
\* ReplaceRoot is in the script.
C5_RootMismatch ==
  Returned =>
    IF ~SameRootSignature
    THEN /\ script = <<ReplaceRoot>>
         /\ ht1 = EmptyTable /\ ht2 = EmptyTable
         /\ calls = {}
    ELSE \A i \in 1..Len(script) : script[i].edit # "ReplaceRoot"

C5_Witness == Returned /\ ~SameRootSignature /\ children(tree1, root) # <<>>

\* C10: every diff_node call, and every pair it commits, is on two nodes with
\* equal signatures.
C10_SignatureGate ==
  \A c \in calls :
     /\ signature(tree1, c.node1) = signature(tree2, c.node2)
     /\ \A p \in c.committed : signature(tree1, p[1]) = signature(tree2, p[2])

C10_Witness ==
  /\ Returned
  /\ \E c \in calls :
        /\ c.committed # {}
        /\ \E n1 \in c.remaining_children1, n2 \in c.remaining_children2 :
              signature(tree1, n1) # signature(tree2, n2)

\* the change made to tree1 is a new value of one leaf: both values are
\* non-blank and differ after trimming
LeafValueChanged ==
  /\ trim(value(tree1, change.at)) # ""
  /\ trim(value(tree2, change.child)) # ""
  /\ trim(value(tree1, change.at)) # trim(value(tree2, change.child))

\* C3: when tree2 is tree1 with another value of one attribute or another
\* content of one text node, the script is exactly one Update of that leaf:
\* old is the leaf in tree1, new is the leaf in tree2.
C3_LeafValueChange ==
  (Returned /\ change.op = "update" /\ LeafValueChanged) =>
     script = <<Update(change.at, change.child)>>

\* the edits of a script as a multiset
ScriptBag(s) ==
  [e \in {s[i] : i \in 1..Len(s)} |-> Cardinality({i \in 1..Len(s) : s[i] = e})]

\* C4: every execution of diff on the two documents (every iteration order of
\* the hash sets, every resolution of ties) returns the multiset of edits of
\* the script that was returned.
C4_Determinism ==
  (Returned /\ SameRootSignature) =>
     \A o \in diff_node(tree1, root, ht1, tree2, root, ht2) :
        ScriptBag(o.script) = ScriptBag(script)

\* C6: when tree2 is tree1 with one more child subtree C under an element P,
\* the script is exactly one Insert of C (in tree2) to P (in tree1).
C6_AddedChild ==
  (Returned /\ change.op = "insert" /\ change.child.attr = <<>>) =>
     script = <<Insert(change.child, change.at)>>

\* C7: when tree2 is tree1 with two same-named sibling element blocks swapped
\* and one leaf value changed inside one of them, every edit of the script is
\* an Update of the changed leaf: no Delete, no Insert.
C7_ReorderPlusChange ==
  (Returned /\ change.op = "reorder_update" /\ LeafValueChanged) =>
     \A i \in 1..Len(script) :
        /\ script[i].edit = "Update"
        /\ script[i].old = change.at
        /\ script[i].new = change.child

\* C8: diff never ends in a fatal fault (a failed unwrap, an unreachable
\* branch) on two parsed documents.
C8_Totality == pc # "panic"

\* the sum of the script lengths of the chosen candidate pairs
RECURSIVE SumOfLen(_, _)
SumOfLen(pairs, chosen) ==
  IF chosen = {} THEN 0
  ELSE LET i == CHOOSE k \in chosen : TRUE
       IN Len(pairs[i].d) + SumOfLen(pairs, chosen \ {i})

\* no child is in two of the chosen candidate pairs
OneToOne(pairs, chosen) ==
  \A i, j \in chosen :
     i # j => pairs[i].n1 # pairs[j].n1 /\ pairs[i].n2 # pairs[j].n2

\* the edits of one element level when the chosen candidate pairs are
\* committed: their scripts, a Delete for every other remaining child of
\* node1, an Insert for every other remaining child of node2
PairingCost(c, chosen) ==
  SumOfLen(c.diff_pairs, chosen)
  + (Cardinality(c.remaining_children1) - Cardinality(chosen))
  + (Cardinality(c.remaining_children2) - Cardinality(chosen))

CommittedPairs(c) ==
  {i \in 1..Len(c.diff_pairs) :
     <<c.diff_pairs[i].n1, c.diff_pairs[i].n2>> \in c.committed}

\* C9: at every element level the edits of the committed pairs plus the
\* Deletes and Inserts are no more than for any other one-to-one pairing of
\* the remaining same-signature children.
C9_Minimality ==
  \A c \in calls :
     c.step = "children" =>
        \A chosen \in SUBSET (1..Len(c.diff_pairs)) :
           OneToOne(c.diff_pairs, chosen) =>
              PairingCost(c, CommittedPairs(c)) <= PairingCost(c, chosen)

\* the nodes reachable from x through children()
RECURSIVE Reachable(_, _)
Reachable(tree, x) ==
  {x} \cup UNION {Reachable(tree, children(tree, x)[i])
                  : i \in 1..Len(children(tree, x))}

\* how many of is_element, is_attribute, is_text are true of x
Kinds(tree, x) ==
  (IF is_element(tree, x) THEN 1 ELSE 0)
  + (IF is_attribute(x) THEN 1 ELSE 0)
  + (IF is_text(tree, x) THEN 1 ELSE 0)

\* C11: of every node reachable from the root through children(), exactly
\* one of is_element, is_attribute, is_text is true.
C11_Classification ==
  /\ \A n \in Reachable(tree1, root) : Kinds(tree1, n) = 1
  /\ \A n \in Reachable(tree2, root) : Kinds(tree2, n) = 1

\* C12: when one attribute or one text node got a value that is the same
\* after trimming, the shallow hash of the leaf is the same in both documents
\* and diff returns no edit.
C12_ShallowHashContent ==
  (/\ change.op = "update"
   /\ trim(value(tree1, change.at)) = trim(value(tree2, change.child))
   /\ trim(value(tree1, change.at)) # "")
  => /\ hash(tree1, change.at) = hash(tree2, change.child)
     /\ Returned => script = <<>>

\* C13: the keys of a hash table that calculate_hash_table returned are the
\* ids of the nodes reachable from the root through children(), two nodes
\* never have one id, and so every child of a reachable node has an entry.
HashIndexComplete(tree, ht) ==
  /\ DOMAIN ht = {id(n) : n \in Reachable(tree, root)}
  /\ \A n, m \in Reachable(tree, root) : n # m => id(n) # id(m)
  /\ \A n \in Reachable(tree, root) :
        \A i \in 1..Len(children(tree, n)) :
           Get(ht, id(children(tree, n)[i])) # <<>>

C13_HashIndexComplete ==
  /\ (pc \in {"table2", "match"} \/ (Returned /\ SameRootSignature))
       => HashIndexComplete(tree1, ht1)
  /\ (pc = "match" \/ (Returned /\ SameRootSignature))
       => HashIndexComplete(tree2, ht2)

C13_Witness ==
  /\ Returned
  /\ \E n \in Reachable(tree2, root) : is_attribute(n)
  /\ \E n \in Reachable(tree2, root) : is_text(tree2, n)
  /\ Cardinality(DOMAIN ht2) >= 4
  /\ script # <<>>

\* the accumulated hashes of the children of x
ChildHashes(tree, ht, x) ==
  {ht[id(children(tree, x)[i])] : i \in 1..Len(children(tree, x))}

\* the children of x whose accumulated hash is none of hs
ChildrenWithout(tree, ht, x, hs) ==
  {children(tree, x)[i] : i \in {j \in 1..Len(children(tree, x)) :
                                   ht[id(children(tree, x)[j])] \notin hs}}

\* C14: at every element level every child of node1 whose accumulated hash
\* is not a hash of a child of node2 and that is in no committed pair gets a
\* Delete, and every such child of node2 gets an Insert.
C14_UnclaimedChildren ==
  \A c \in calls :
     c.step = "children" =>
        /\ \A n \in ChildrenWithout(tree1, ht1, c.node1,
                                    ChildHashes(tree2, ht2, c.node2)) :
              (\A p \in c.committed : p[1] # n) => n \in c.deleted
        /\ \A n \in ChildrenWithout(tree2, ht2, c.node2,
                                    ChildHashes(tree1, ht1, c.node1)) :
              (\A p \in c.committed : p[2] # n) => n \in c.inserted

\* two candidate pairs have a child in common
SharesChild(p, q) == p.n1 = q.n1 \/ p.n2 = q.n2

\* C15: at every element level the committed pairs are a one-to-one partial
\* matching of the remaining children of node1 and node2, and every candidate
\* pair that is not committed shares a child with a committed pair whose
\* script is no longer than its own.
C15_GreedyFirstFit ==
  \A c \in calls :
     c.step = "children" =>
        /\ \A p \in c.committed :
              p[1] \in c.remaining_children1 /\ p[2] \in c.remaining_children2
        /\ \A p, q \in c.committed : p # q => p[1] # q[1] /\ p[2] # q[2]
        /\ \A i \in (1..Len(c.diff_pairs)) \ CommittedPairs(c) :
              \E j \in CommittedPairs(c) :
                 /\ SharesChild(c.diff_pairs[i], c.diff_pairs[j])
                 /\ Len(c.diff_pairs[j].d) <= Len(c.diff_pairs[i].d)

C15_Witness ==
  /\ Returned
  /\ \E c \in calls :
        /\ c.step = "children"
        /\ \E i \in (1..Len(c.diff_pairs)) \ CommittedPairs(c) :
              \E j \in CommittedPairs(c) :
                 /\ SharesChild(c.diff_pairs[i], c.diff_pairs[j])
                 /\ Len(c.diff_pairs[j].d) < Len(c.diff_pairs[i].d)

\* the children of x whose accumulated hash is one of hs
ChildrenWith(tree, ht, x, hs) ==
  {children(tree, x)[i] : i \in {j \in 1..Len(children(tree, x)) :
                                   ht[id(children(tree, x)[j])] \in hs}}

\* the children of x as a set
ChildSet(tree, x) == {children(tree, x)[i] : i \in 1..Len(children(tree, x))}

\* the edit is on x or on a descendant of x, x a node of document 1
RefersTo1(e, x) ==
  CASE e.edit = "Delete" -> IsPrefix(x.node, e.node.node) /\ (x.attr # <<>> => e.node = x)
    [] e.edit = "Update" -> IsPrefix(x.node, e.old.node) /\ (x.attr # <<>> => e.old = x)
    [] e.edit = "Insert" -> IsPrefix(x.node, e.to_node.node) /\ (x.attr # <<>> => e.to_node = x)
    [] OTHER -> FALSE

\* the edit is on x or on a descendant of x, x a node of document 2
RefersTo2(e, x) ==
  CASE e.edit = "Update" -> IsPrefix(x.node, e.new.node) /\ (x.attr # <<>> => e.new = x)
    [] e.edit = "Insert" ->
         IsPrefix(x.node, e.child_node.node) /\ (x.attr # <<>> => e.child_node = x)
    [] OTHER -> FALSE

\* C16: at every element level a child whose accumulated hash is the hash of
\* a child of the other node is not among the remaining children, is in no
\* candidate pair, is not recursed into, is not deleted or inserted, and no
\* edit of a candidate script is on it or below it.
C16_CommonHashRemoval ==
  \A c \in calls :
     c.step = "children" =>
        /\ \A n \in ChildrenWith(tree1, ht1, c.node1,
                                 ChildHashes(tree2, ht2, c.node2)) :
              /\ n \notin c.remaining_children1
              /\ n \notin c.deleted
              /\ \A i \in 1..Len(c.diff_pairs) :
                    /\ c.diff_pairs[i].n1 # n
                    /\ \A k \in 1..Len(c.diff_pairs[i].d) :
                          ~RefersTo1(c.diff_pairs[i].d[k], n)
              /\ \A c2 \in calls :
                    ~(c2.node1 = n /\ c2.node2 \in ChildSet(tree2, c.node2))
        /\ \A n \in ChildrenWith(tree2, ht2, c.node2,
                                 ChildHashes(tree1, ht1, c.node1)) :
              /\ n \notin c.remaining_children2
              /\ n \notin c.inserted
              /\ \A i \in 1..Len(c.diff_pairs) :
                    /\ c.diff_pairs[i].n2 # n
                    /\ \A k \in 1..Len(c.diff_pairs[i].d) :
                          ~RefersTo2(c.diff_pairs[i].d[k], n)
              /\ \A c2 \in calls :
                    ~(c2.node2 = n /\ c2.node1 \in ChildSet(tree1, c.node1))

C16_Witness ==
  /\ Returned
  /\ script # <<>>
  /\ \E c \in calls :
        /\ c.step = "children"
        /\ c.committed # {}
        /\ ChildrenWith(tree1, ht1, c.node1, ChildHashes(tree2, ht2, c.node2)) # {}

\* both hash tables have been built
TablesBuilt == pc = "match" \/ (Returned /\ SameRootSignature)

\* the node that was changed and its ancestors up to the root
PathToChange(x) ==
  {x} \cup {XNode(SubSeq(x.node, 1, k), <<>>) :
              k \in 0..(IF x.attr # <<>> THEN Len(x.node) ELSE Len(x.node) - 1)}

\* the node of document 2 at the place of node x of document 1
Counterpart(x) == IF x = change.at THEN change.child ELSE x

\* C17: when the two documents have one shape and the shallow hash of exactly
\* one node differs, the accumulated hashes of that node and of each of its
\* ancestors differ between the documents, and no diff_node call on the node
\* or an ancestor and its counterpart returns at the equal-hash test.
C17_HashSensitivity ==
  (/\ TablesBuilt
   /\ change.op \in {"update", "rename"}
   /\ id(change.at) \in DOMAIN ht1
   /\ id(change.child) \in DOMAIN ht2
   /\ hash(tree1, change.at) # hash(tree2, change.child))
  => \A x \in PathToChange(change.at) :
        /\ ht1[id(x)] # ht2[id(Counterpart(x))]
        /\ \A c \in calls :
              (c.node1 = x /\ c.node2 = Counterpart(x)) => c.step # "equal"

C17_Witness ==
  /\ Returned
  /\ change.op = "update"
  /\ Len(change.at.node) >= 2
  /\ hash(tree1, change.at) # hash(tree2, change.child)
  /\ \E c \in calls : c.node1 = change.at /\ c.node2 = change.child
  /\ script = <<Update(change.at, change.child)>>

\* C18: when the root signatures are equal and diff returns the empty script,
\* the accumulated hashes of the two roots are equal.
C18_EmptyMeansHashEqual ==
  (Returned /\ SameRootSignature /\ script = <<>>) =>
     ht1[id(root)] = ht2[id(root)]

\* the two nodes are two elements, two attributes or two text nodes
SameKind(n1, n2) ==
  /\ is_element(tree1, n1) <=> is_element(tree2, n2)
  /\ is_attribute(n1) <=> is_attribute(n2)
  /\ is_text(tree1, n1) <=> is_text(tree2, n2)

\* C19: diff_node is never called on, and never commits, a pair of nodes of
\* different kinds (an attribute and a text node, an element and an
\* attribute, an element and a text node).
C19_KindRespecting ==
  \A c \in calls :
     /\ SameKind(c.node1, c.node2)
     /\ \A p \in c.committed : SameKind(p[1], p[2])

\* the node of document 1 that a Delete or an Update is about
Subject1(e) ==
  CASE e.edit = "Delete" -> <<e.node>>
    [] e.edit = "Update" -> <<e.old>>
    [] OTHER -> <<>>

\* the node of document 2 that an Insert adds
Inserted2(e) == IF e.edit = "Insert" THEN <<e.child_node>> ELSE <<>>

\* the number of edits a diff_node call returned
Cost(c) ==
  CASE c.step = "equal" -> 0
    [] c.step = "update" -> 1
    [] OTHER -> PairingCost(c, CommittedPairs(c))

\* C20: in the script diff returns no node of document 1 has two Deletes or
\* Updates, no node of document 2 is inserted twice, no other edit is on or
\* below a deleted or inserted node, and every script is made of the scripts
\* of the committed pairs, the Deletes and the Inserts only (a candidate pair
\* that was not committed adds no edit).
C20_EditsDisjoint ==
  (Returned /\ SameRootSignature) =>
     /\ \A i, j \in 1..Len(script) :
           i # j =>
              /\ Subject1(script[i]) # <<>> => Subject1(script[i]) # Subject1(script[j])
              /\ Inserted2(script[i]) # <<>> => Inserted2(script[i]) # Inserted2(script[j])
              /\ script[i].edit = "Delete" => ~RefersTo1(script[j], script[i].node)
              /\ script[i].edit = "Insert" => ~RefersTo2(script[j], script[i].child_node)
     /\ \A c \in calls :
           /\ (c.node1 = root /\ c.node2 = root) => Len(script) = Cost(c)
           /\ \A i \in 1..Len(c.diff_pairs) :
                 \A c2 \in calls :
                    (c2.node1 = c.diff_pairs[i].n1 /\ c2.node2 = c.diff_pairs[i].n2)
                       => Len(c.diff_pairs[i].d) = Cost(c2)

C20_Witness ==
  /\ Returned
  /\ Len(script) >= 2
  /\ \E c \in calls :
        \E i \in (1..Len(c.diff_pairs)) \ CommittedPairs(c) : c.diff_pairs[i].d # <<>>
  /\ \E i \in 1..Len(script) : script[i].edit = "Delete"
  /\ \E i \in 1..Len(script) : script[i].edit = "Insert"

\* document doc has a line with the gutter for every node of the subtree of x
Written(doc, tree, x, gutter) ==
  \A n \in Reachable(tree, x) :
     \E k \in 1..Len(output) :
        /\ output[k].gutter = gutter
        /\ output[k].doc = doc
        /\ output[k].node = n

\* C21: when the root signatures are equal and the script is not empty,
\* write_tree_diff writes the subtree of the child of every Insert with the
\* Add gutter and the subtree of every deleted node with the Delete gutter.
C21_RenderingComplete ==
  (pc = "written" /\ SameRootSignature /\ script # <<>>) =>
     \A i \in 1..Len(script) :
        /\ script[i].edit = "Insert" => Written(2, tree2, script[i].child_node, "Add")
        /\ script[i].edit = "Delete" => Written(1, tree1, script[i].node, "Delete")

====
